---- MODULE Spec2Model ----
(***************************************************************************)
(* Set-expression tokenizer and recursive-descent parser-evaluator of      *)
(* SetVisualizer (src/main.py).  A formula is a sequence of characters,     *)
(* each the code point ord(c) of the Python str; a membership vector is a  *)
(* function from the universe 1..N to BOOLEAN.  The recursive descent is   *)
(* run on an explicit call stack, one frame per active _parse_* call, so   *)
(* that the parse cursor of every call is part of the state and the depth  *)
(* of the recursion is the length of the stack.                            *)
(***************************************************************************)
EXTENDS Integers, Sequences, FiniteSets, TLC

\* Number of points of the universe (len(self.points), GRID_SIZE^2 in the
\* program), bounded for checking.
UniverseSize == 2

\* Number of _parse_* calls that can be active at once: what the interpreter's
\* recursion limit (1000 frames by default) leaves to the parser under the
\* frames of its callers, bounded for checking.  One group nests 7 calls.
RecursionLimit == 21

Universe == 1..UniverseSize

\* Keys of SET_CONFIG and of the masks dictionary.
Names == {"A", "B", "C"}

Vectors == [Universe -> BOOLEAN]

\* Every masks dictionary evaluate_expression can build: one vector per set.
AllMasks == [Names -> Vectors]

\* np.zeros(len(self.points), dtype=bool)
Zeros == [i \in Universe |-> FALSE]

\* np.ones(len(self.points), dtype=bool)
Ones == [i \in Universe |-> TRUE]

\* Elementwise numpy operators on boolean arrays.
VOr(a, b) == [i \in Universe |-> a[i] \/ b[i]]

VAnd(a, b) == [i \in Universe |-> a[i] /\ b[i]]

VXor(a, b) == [i \in Universe |-> a[i] # b[i]]

VNot(a) == [i \in Universe |-> ~a[i]]

\* The code points c for which chr(c).isspace() holds, which are those
\* str.strip() removes: U+0009..U+000D, U+001C..U+0020, U+0085, U+00A0,
\* U+1680, U+2000..U+200A, U+2028, U+2029, U+202F, U+205F, U+3000.
WhiteSpace ==
    (9..13) \cup (28..32) \cup {133, 160, 5760} \cup (8192..8202)
    \cup {8232, 8233, 8239, 8287, 12288}

\* ord(c) of the characters the formulas below are written with; a character
\* with no printable form goes by its Unicode name.
Ord(c) ==
    CASE c = "A" -> 65 [] c = "B" -> 66 [] c = "C" -> 67 [] c = "U" -> 85
      [] c = "." -> 46 [] c = "&" -> 38 [] c = "^" -> 94 [] c = "-" -> 45
      [] c = "(" -> 40 [] c = ")" -> 41
      [] c = " " -> 32 [] c = "\t" -> 9 [] c = "\n" -> 10 [] c = "\r" -> 13
      [] c = "\f" -> 12 [] c = "LINE TABULATION" -> 11
      [] c = "FILE SEPARATOR" -> 28 [] c = "UNIT SEPARATOR" -> 31
      [] c = "NEXT LINE" -> 133 [] c = "NO-BREAK SPACE" -> 160
      [] c = "OGHAM SPACE MARK" -> 5760 [] c = "EM SPACE" -> 8195
      [] c = "LINE SEPARATOR" -> 8232 [] c = "IDEOGRAPHIC SPACE" -> 12288
      [] c = "#" -> 35 [] c = "a" -> 97 [] c = "u" -> 117
      [] c = "ZERO WIDTH SPACE" -> 8203
      [] c = "CYRILLIC CAPITAL LETTER A" -> 1040 [] c = "SURROGATE D800" -> 55296

\* The characters the formulas below are written with, and their code points.
Chars ==
    {"A", "B", "C", "U", ".", "&", "^", "-", "(", ")", " ", "\t", "\n", "\r", "\f",
     "LINE TABULATION", "FILE SEPARATOR", "UNIT SEPARATOR", "NEXT LINE", "NO-BREAK SPACE",
     "OGHAM SPACE MARK", "EM SPACE", "LINE SEPARATOR", "IDEOGRAPHIC SPACE", "#", "a", "u",
     "ZERO WIDTH SPACE", "CYRILLIC CAPITAL LETTER A", "SURROGATE D800"}

OrdOf == [c \in Chars |-> Ord(c)]

\* The string whose characters are named by cs.
Codes(cs) == [i \in DOMAIN cs |-> OrdOf[cs[i]]]

\* The messages of the ValueErrors the tokenizer and the parser raise.
UnknownCharacter == "Unknown character"

UnexpectedEndOfInput == "Unexpected end of expression"

UnclosedParenthesis == "Missing closing parenthesis"

UnexpectedToken == "Unexpected token"

\* The message of the RecursionError the interpreter raises on a call that
\* would exceed its recursion limit.
RecursionError == "maximum recursion depth exceeded"

\* The exception print raises on a character its stream cannot encode.
UnicodeEncodeError == "UnicodeEncodeError"

NoError == "none"

----------------------------------------------------------------------------
\* str.strip(): drop leading and trailing whitespace.
RECURSIVE LStrip(_)
LStrip(s) ==
    IF s # <<>> /\ Head(s) \in WhiteSpace THEN LStrip(Tail(s)) ELSE s

RECURSIVE RStrip(_)
RStrip(s) ==
    IF s # <<>> /\ s[Len(s)] \in WhiteSpace
    THEN RStrip(SubSeq(s, 1, Len(s) - 1))
    ELSE s

Strip(s) == LStrip(RStrip(s))

\* The token one character of the alphabet produces.
TokenOf(c) ==
    CASE c = Ord("A") -> "A"
      [] c = Ord("B") -> "B"
      [] c = Ord("C") -> "C"
      [] c = Ord(".") -> "NOT"
      [] c = Ord("U") -> "OR"
      [] c = Ord("&") -> "AND"
      [] c = Ord("^") -> "XOR"
      [] c = Ord("-") -> "DIFF"
      [] c = Ord("(") -> "("
      [] c = Ord(")") -> ")"

Alphabet == {Ord(c) : c \in {"A", "B", "C", ".", "U", "&", "^", "-", "(", ")"}}

\* _tokenize skipping a character it does not know, as it skips whitespace.
RECURSIVE TokenizeFromSkipping(_, _, _)
TokenizeFromSkipping(expr, i, toks) ==
    IF ~(i < Len(expr)) THEN [err |-> NoError, tokens |-> toks, at |-> i]
    ELSE IF expr[i + 1] \in Alphabet
         THEN TokenizeFromSkipping(expr, i + 1, Append(toks, TokenOf(expr[i + 1])))
    ELSE TokenizeFromSkipping(expr, i + 1, toks)

\* The while loop of _tokenize from index i (0-based) with the tokens so far:
\* the token list, or the error raised at the first unknown character.
RECURSIVE TokenizeFrom(_, _, _)
TokenizeFrom(expr, i, toks) ==
    IF ~(i < Len(expr)) THEN [err |-> NoError, tokens |-> toks, at |-> i]
    ELSE IF expr[i + 1] \in WhiteSpace THEN TokenizeFrom(expr, i + 1, toks)
    ELSE IF expr[i + 1] \in Alphabet
         THEN TokenizeFrom(expr, i + 1, Append(toks, TokenOf(expr[i + 1])))
    ELSE [err |-> UnknownCharacter, tokens |-> <<>>, at |-> i]

tokenize(expr) == TokenizeFrom(expr, 0, <<>>)

----------------------------------------------------------------------------
VARIABLES
    expression,   \* the formula handed to evaluate_expression
    masks,        \* the masks dictionary: set name -> membership vector
    pc,           \* where evaluate_expression / _safe_evaluate stands
    tokens,       \* the list _tokenize returned
    stack,        \* the active _parse_* calls, innermost last
    ret,          \* the (value, pos) pair a _parse_* call just returned
    error,        \* the exception raised out of _safe_evaluate
    safe_result,  \* what _safe_evaluate returned
    stdout,       \* the sys.stdout the print of the except clause wrote to
    propagated,   \* the exception raised out of evaluate_expression
    result        \* what evaluate_expression returned

vars ==
    <<expression, masks, pc, tokens, stack, ret, error, safe_result, stdout, propagated,
      result>>

None == <<>>

Some(v) == <<v>>

\* An exception: its message, with the token or the character it quotes.
NoErr == [kind |-> NoError, token |-> "", char |-> <<>>]

Err(kind, token) == [kind |-> kind, token |-> token, char |-> <<>>]

CharErr(kind, c) == [kind |-> kind, token |-> "", char |-> <<c>>]

\* A fresh call fn(tokens, pos, masks, universal): its locals pos and left,
\* and the pos it was called with.
Frame(fn, pos) == [fn |-> fn, pc |-> "start", start |-> pos, pos |-> pos, left |-> Zeros]

Top == stack[Len(stack)]

Callers == SubSeq(stack, 1, Len(stack) - 1)

\* The running call returns (val, pos) to its caller.
Return(val, pos) ==
    /\ stack' = Callers
    /\ ret' = Some([val |-> val, pos |-> pos, fn |-> Top.fn, start |-> Top.start])
    /\ UNCHANGED <<pc, error>>

\* The running call raises an exception: every active call is abandoned and
\* the exception leaves _safe_evaluate.
Raise(kind, arg) ==
    /\ stack' = <<>>
    /\ ret' = None
    /\ error' = Err(kind, arg)
    /\ pc' = "raised"

\* The running call makes a nested call: it waits at label pc with locals
\* left and pos while callee(tokens, pos, ...) runs.  A call the recursion
\* limit leaves no frame for raises RecursionError instead.
CallFrom(pcAfter, left, pos, callee) ==
    IF Len(stack) >= RecursionLimit
    THEN Raise(RecursionError, "")
    ELSE /\ stack' = Callers \o <<[Top EXCEPT !.pc = pcAfter, !.left = left, !.pos = pos],
                                  Frame(callee, pos)>>
         /\ ret' = None
         /\ UNCHANGED <<pc, error>>

\* len(tokens) and ValueError(...) are calls as well.  In the last frame the
\* recursion limit allows, an interpreter that counts the calls of built-ins
\* against the limit (CPython up to 3.11, unless it has specialized the call)
\* raises RecursionError on them; an interpreter that does not runs them.
BuiltinCallRefused == Len(stack) >= RecursionLimit /\ Raise(RecursionError, "")

Running(fn, at) ==
    /\ pc = "parsing"
    /\ stack # <<>>
    /\ Top.fn = fn
    /\ Top.pc = at

\* The common shape of _parse_or, _parse_diff, _parse_xor and _parse_and:
\*   left, pos = operand(pos)
\*   while pos < len(tokens) and tokens[pos] == op:
\*       pos += 1; right, pos = operand(pos); left = Fold(op, left, right)
\*   return left, pos
\* One step runs from a call's entry, or from the return of an operand, to
\* the next operand call or to the return.
\* left = left & ~right, as a bug would have it: the operands exchanged.
DiffSwapped(left, right) == VAnd(right, VNot(left))

\* left = left & ~right
Diff(left, right) == VAnd(left, VNot(right))

\* The assignment to left in the loop of the tier that reads op.
Fold(op, left, right) ==
    CASE op = "OR" -> VOr(left, right)
      [] op = "DIFF" -> Diff(left, right)
      [] op = "XOR" -> VXor(left, right)
      [] op = "AND" -> VAnd(left, right)

TierEnter(fn, operand) ==
    /\ Running(fn, "start")
    /\ CallFrom("left", Top.left, Top.pos, operand)

TierLoop(fn, operand, op) ==
    /\ pc = "parsing" /\ stack # <<>> /\ Top.fn = fn
    /\ Top.pc \in {"left", "right"}
    /\ ret # None
    /\ LET r == ret[1]
           left == IF Top.pc = "left" THEN r.val ELSE Fold(op, Top.left, r.val)
           pos == r.pos
       IN  IF pos < Len(tokens) /\ tokens[pos + 1] = op
           THEN CallFrom("right", left, pos + 1, operand)
           ELSE Return(left, pos)

parse_or ==
    /\ \/ TierEnter("or", "diff")
       \/ TierLoop("or", "diff", "OR")
    /\ UNCHANGED <<expression, masks, stdout, propagated, tokens, safe_result, result>>

\* _parse_diff taking its operands from _parse_and, past the XOR tier.
parse_diff_over_and ==
    /\ \/ TierEnter("diff", "and")
       \/ TierLoop("diff", "and", "DIFF")
    /\ UNCHANGED <<expression, masks, stdout, propagated, tokens, safe_result, result>>

parse_diff ==
    /\ \/ TierEnter("diff", "xor")
       \/ TierLoop("diff", "xor", "DIFF")
    /\ UNCHANGED <<expression, masks, stdout, propagated, tokens, safe_result, result>>

parse_xor ==
    /\ \/ TierEnter("xor", "and")
       \/ TierLoop("xor", "and", "XOR")
    /\ UNCHANGED <<expression, masks, stdout, propagated, tokens, safe_result, result>>

parse_and ==
    /\ \/ TierEnter("and", "not")
       \/ TierLoop("and", "not", "AND")
    /\ UNCHANGED <<expression, masks, stdout, propagated, tokens, safe_result, result>>

parse_expression ==
    /\ \/ /\ Running("expression", "start")
          /\ CallFrom("left", Top.left, Top.pos, "or")
       \/ /\ Running("expression", "left")
          /\ ret # None
          /\ Return(ret[1].val, ret[1].pos)
    /\ UNCHANGED <<expression, masks, stdout, propagated, tokens, safe_result, result>>

\* _parse_not consuming the '.' and returning the operand as it is.
parse_not_keeps_operand ==
    /\ \/ /\ Running("not", "start")
          /\ CallFrom("operand", Top.left, Top.pos, "atom")
       \/ /\ Running("not", "operand")
          /\ ret # None
          /\ LET operand == ret[1].val
                 pos == ret[1].pos
             IN  IF pos < Len(tokens) /\ tokens[pos + 1] = "NOT"
                 THEN Return(operand, pos + 1)
                 ELSE Return(operand, pos)
    /\ UNCHANGED <<expression, masks, stdout, propagated, tokens, safe_result, result>>

parse_not ==
    /\ \/ /\ Running("not", "start")
          /\ CallFrom("operand", Top.left, Top.pos, "atom")
       \/ /\ Running("not", "operand")
          /\ ret # None
          /\ LET operand == ret[1].val
                 pos == ret[1].pos
             IN  IF pos < Len(tokens) /\ tokens[pos + 1] = "NOT"
                 THEN Return(VAnd(Ones, VNot(operand)), pos + 1)
                 ELSE Return(operand, pos)
    /\ UNCHANGED <<expression, masks, stdout, propagated, tokens, safe_result, result>>

\* _parse_atom closing a group on whatever token follows its expression.
parse_atom_any_closer ==
    /\ \/ /\ Running("atom", "start")
          /\ \/ BuiltinCallRefused
             \/ LET pos == Top.pos IN
                IF pos >= Len(tokens) THEN Raise(UnexpectedEndOfInput, "")
                ELSE LET token == tokens[pos + 1] IN
                     IF token = "(" THEN CallFrom("paren", Top.left, pos + 1, "expression")
                     ELSE IF token \in DOMAIN masks THEN Return(masks[token], pos + 1)
                     ELSE Raise(UnexpectedToken, token)
       \/ /\ Running("atom", "paren")
          /\ ret # None
          /\ LET pos == ret[1].pos IN
             IF pos >= Len(tokens)
             THEN Raise(UnclosedParenthesis, "")
             ELSE Return(ret[1].val, pos + 1)
    /\ UNCHANGED <<expression, masks, stdout, propagated, tokens, safe_result, result>>

\* _parse_atom reporting the end of the tokens inside a group as the end of
\* the expression.
parse_atom_end_in_group ==
    /\ \/ /\ Running("atom", "start")
          /\ \/ BuiltinCallRefused
             \/ LET pos == Top.pos IN
                IF pos >= Len(tokens) THEN Raise(UnexpectedEndOfInput, "")
                ELSE LET token == tokens[pos + 1] IN
                     IF token = "(" THEN CallFrom("paren", Top.left, pos + 1, "expression")
                     ELSE IF token \in DOMAIN masks THEN Return(masks[token], pos + 1)
                     ELSE Raise(UnexpectedToken, token)
       \/ /\ Running("atom", "paren")
          /\ ret # None
          /\ LET pos == ret[1].pos IN
             IF pos >= Len(tokens) \/ tokens[pos + 1] # ")"
             THEN Raise(IF pos >= Len(tokens) THEN UnexpectedEndOfInput ELSE UnclosedParenthesis, "")
             ELSE Return(ret[1].val, pos + 1)
    /\ UNCHANGED <<expression, masks, stdout, propagated, tokens, safe_result, result>>

\* _parse_atom returning pos, not pos + 1, after a set reference.
parse_atom_no_advance ==
    /\ \/ /\ Running("atom", "start")
          /\ \/ BuiltinCallRefused
             \/ LET pos == Top.pos IN
                IF pos >= Len(tokens) THEN Raise(UnexpectedEndOfInput, "")
                ELSE LET token == tokens[pos + 1] IN
                     IF token = "(" THEN CallFrom("paren", Top.left, pos + 1, "expression")
                     ELSE IF token \in DOMAIN masks THEN Return(masks[token], pos)
                     ELSE Raise(UnexpectedToken, token)
       \/ /\ Running("atom", "paren")
          /\ ret # None
          /\ LET pos == ret[1].pos IN
             IF pos >= Len(tokens) \/ tokens[pos + 1] # ")"
             THEN Raise(UnclosedParenthesis, "")
             ELSE Return(ret[1].val, pos + 1)
    /\ UNCHANGED <<expression, masks, stdout, propagated, tokens, safe_result, result>>

parse_atom ==
    /\ \/ /\ Running("atom", "start")
          /\ \/ BuiltinCallRefused
             \/ LET pos == Top.pos IN
                IF pos >= Len(tokens) THEN Raise(UnexpectedEndOfInput, "")
                ELSE LET token == tokens[pos + 1] IN
                     IF token = "(" THEN CallFrom("paren", Top.left, pos + 1, "expression")
                     ELSE IF token \in DOMAIN masks THEN Return(masks[token], pos + 1)
                     ELSE Raise(UnexpectedToken, token)
       \/ /\ Running("atom", "paren")
          /\ ret # None
          /\ LET pos == ret[1].pos IN
             IF pos >= Len(tokens) \/ tokens[pos + 1] # ")"
             THEN Raise(UnclosedParenthesis, "")
             ELSE Return(ret[1].val, pos + 1)
    /\ UNCHANGED <<expression, masks, stdout, propagated, tokens, safe_result, result>>

\* evaluate_expression without the test for an empty expression.
evaluate_expression_no_blank_check ==
    /\ pc = "idle"
    /\ pc' = "safe_evaluate"
    /\ UNCHANGED <<expression, masks, stdout, propagated, tokens, stack, ret, error, safe_result, result>>

\* evaluate_expression up to the call of _safe_evaluate: the all-false vector
\* for an empty or whitespace-only expression, else the masks are handed on.
evaluate_expression ==
    /\ pc = "idle"
    /\ IF expression = <<>> \/ Strip(expression) = <<>>
       THEN /\ result' = Some(Zeros)
            /\ pc' = "done"
       ELSE /\ pc' = "safe_evaluate"
            /\ UNCHANGED result
    /\ UNCHANGED <<expression, masks, stdout, propagated, tokens, stack, ret, error, safe_result>>

\* _safe_evaluate: strip and tokenize the whole expression, then call
\* _parse_expression(tokens, 0, ...).
safe_evaluate ==
    /\ pc = "safe_evaluate"
    /\ LET t == tokenize(Strip(expression)) IN
       IF t.err # NoError
       THEN /\ error' = CharErr(t.err, Strip(expression)[t.at + 1])
            /\ pc' = "raised"
            /\ UNCHANGED <<tokens, stack>>
       ELSE /\ tokens' = t.tokens
            /\ stack' = <<Frame("expression", 0)>>
            /\ pc' = "parsing"
            /\ UNCHANGED error
    /\ UNCHANGED <<expression, masks, stdout, propagated, ret, safe_result, result>>

\* _parse_expression has returned (result, _): _safe_evaluate returns result,
\* dropping the position, and evaluate_expression returns it.
safe_evaluate_return ==
    /\ pc = "parsing"
    /\ stack = <<>>
    /\ ret # None
    /\ safe_result' = Some(ret[1].val)
    /\ result' = Some(ret[1].val)
    /\ pc' = "done"
    /\ UNCHANGED <<expression, masks, stdout, propagated, tokens, stack, ret, error>>

\* The text streams sys.stdout can be: an encoding and its error handler.
Encodings == {"utf-8", "ascii", "cp1251"}

Streams == [encoding : Encodings, errors : {"strict", "replace"}]

\* The characters the code page cp1251 holds.
Cp1251 ==
    (0..127) \cup {160, 164, 166, 167, 169} \cup (171..174) \cup {176, 177}
    \cup (181..183) \cup {187} \cup (1025..1036) \cup (1038..1103) \cup (1105..1116)
    \cup {1118, 1119, 1168, 1169, 8211, 8212} \cup (8216..8218) \cup (8220..8222)
    \cup (8224..8226) \cup {8230, 8240, 8249, 8250, 8364, 8470, 8482}

\* str.encode: the encoding has a byte sequence for the character c.
Encodes(encoding, c) ==
    CASE encoding = "utf-8" -> c \notin 55296..57343
      [] encoding = "ascii" -> c < 128
      [] encoding = "cp1251" -> c \in Cp1251

\* The characters of f'Ошибка в выражении: {e}' that are not ASCII in every
\* case: the Cyrillic text and the character an 'Unknown character' message
\* quotes.  The messages themselves and the token names are ASCII, which
\* every encoding of Encodings holds.
Message(e) ==
    <<1054, 1096, 1080, 1073, 1082, 1072, 32, 1074, 32, 1074, 1099, 1088, 1072, 1078,
      1077, 1085, 1080, 1080, 58, 32>> \o e.char

\* print(text) on a stream: UnicodeEncodeError if the stream is strict and
\* cannot encode a character of the text.
PrintRaises(stream, text) ==
    /\ stream.errors = "strict"
    /\ \E i \in 1..Len(text) : ~Encodes(stream.encoding, text[i])

\* The except clause of evaluate_expression: the exception is printed and the
\* all-false vector returned, unless the print raises in its turn, which
\* leaves evaluate_expression with that exception and no vector.
evaluate_expression_except ==
    /\ pc = "raised"
    /\ \E stream \in Streams :
          /\ stdout' = Some(stream)
          /\ IF PrintRaises(stream, Message(error))
             THEN /\ propagated' = UnicodeEncodeError
                  /\ UNCHANGED result
             ELSE /\ result' = Some(Zeros)
                  /\ UNCHANGED propagated
    /\ pc' = "done"
    /\ UNCHANGED <<expression, masks, tokens, stack, ret, error, safe_result>>

Next ==
    \/ evaluate_expression
    \/ safe_evaluate
    \/ parse_expression
    \/ parse_or
    \/ parse_diff
    \/ parse_xor
    \/ parse_and
    \/ parse_not
    \/ parse_atom
    \/ safe_evaluate_return
    \/ evaluate_expression_except

----------------------------------------------------------------------------
\* The formulas the specification evaluates, written as sequences of
\* character names (see Ord).
NameChars == {"A", "B", "C"}

BinChars == {"U", "&", "^", "-"}

\* The characters of cs separated by single blanks: "A U B".
RECURSIVE Spaced(_)
Spaced(cs) ==
    IF Len(cs) <= 1 THEN cs ELSE <<Head(cs), " ">> \o Spaced(Tail(cs))

Blank ==
    {<<>>, <<" ">>, <<" ", " ">>, <<"\t">>, <<" ", "\t", " ">>, <<"\n">>, <<"\r", "\n">>,
     <<"\f", "LINE TABULATION">>, <<"FILE SEPARATOR", "UNIT SEPARATOR">>,
     <<"NEXT LINE", "NO-BREAK SPACE">>, <<"OGHAM SPACE MARK", "EM SPACE">>,
     <<"LINE SEPARATOR", "IDEOGRAPHIC SPACE">>}

Refs == {<<x>> : x \in NameChars} \cup {<<" ", x, " ">> : x \in NameChars}

\* The binary formulas over the operand pairs the specification evaluates.
Pairs == {<<"A", "B">>, <<"B", "C">>, <<"C", "A">>, <<"B", "B">>}

BinaryPairs == {Spaced(<<xy[1], o, xy[2]>>) : xy \in Pairs, o \in BinChars}

Chains == {Spaced(<<"A", o, "B", p, "C">>) : o \in BinChars, p \in BinChars}

Postfix ==
    {<<x, ".">> : x \in NameChars}
    \cup {<<"A", " ", o, " ", "B", ".">> : o \in BinChars}
    \cup {<<"A", ".", " ", o, " ", "B">> : o \in BinChars}
    \cup {<<"(", "A", " ", o, " ", "B", ")", ".">> : o \in BinChars}

\* Groups that override the binding order: a looser operator inside the
\* parentheses, a tighter one outside.
Grouped ==
    {<<"(", "A", o, "B", ")", p, "C">> : o \in {"U", "-"}, p \in {"&", "^"}}
    \cup {<<"A", o, "(", "B", p, "C", ")">> : o \in {"&", "^"}, p \in {"U", "-"}}
    \cup {<<"(", "A", ")">>, <<"(", "(", "B", ")", ")">>, <<"(", "A", ".", ")", ".">>}

\* Formulas laid out with other whitespace than blanks.
LaidOut ==
    {<<"A", "\n", "U", "\r", "B">>, <<"\n", "C", ".", "NEXT LINE">>,
     <<"NO-BREAK SPACE", "A", "EM SPACE", "-", "\f", "B", "IDEOGRAPHIC SPACE">>,
     <<"(", "LINE TABULATION", "A", "UNIT SEPARATOR", "^", "LINE SEPARATOR", "B", ")">>}

WellFormed == Refs \cup BinaryPairs \cup Chains \cup Postfix \cup Grouped \cup LaidOut

\* A complete expression followed by further tokens.
Complete == {<<"A">>, <<"A", ".">>, <<"A", "U", "B">>, <<"(", "A", ")">>}

Tails == {<<"B">>, <<")">>, <<" ", "(", "C", ")">>, <<".", ".">>}

Trailing == {c \o t : c \in Complete, t \in Tails}

\* A group that is not closed where its expression ends.
Unclosed ==
    {<<"(", "A", " ", "U", " ", "B">>, <<"(", "A", " ", "B", ")">>, <<"(", "A">>,
     <<"(", "A", ".">>, <<"(", "(", "A", ")">>, <<"(", "A", "U", "B", " ", "C", ")">>,
     <<"A", "U", "(", "B", "&", "C">>, <<"(", "A", "(">>, <<"(", "A", ".", ".", ")">>,
     <<"(", "(", "A", "-", "B", ")", "^", "C">>}

\* A formula that stops where an operand is required.
Truncated ==
    {<<"A", " ", o>> : o \in BinChars}
    \cup {<<"(">>, <<"(", "(">>, <<"(", "A", " ", "U">>, <<"A", "U", "(">>,
          <<"A", ".", "&">>, <<"(", "A", ")", "-">>, <<"A", "^", "B", "&">>}

\* A token that is no operand where an operand is required.
NoOperand == BinChars \cup {".", ")"}

Stray ==
    {<<b, "A">> : b \in NoOperand}
    \cup {<<"A", " ", o, " ", b, " ", "B">> : o \in {"U", "&"}, b \in NoOperand}
    \cup {<<"(", b, "A", ")">> : b \in NoOperand}
    \cup {<<"(", ")">>, <<")">>, <<"A", "U", "B", "-", ")">>, <<"(", "A", ")", "&", ".">>}

\* A character outside the alphabet, at every place of malformed and
\* well-formed surroundings.
UnknownChars == {"#", "a", "u"}

Pieces == {<<>>, <<"A", " ", "U", " ", "B", " ">>, <<"(">>, <<"U", " ">>, <<"A", " ", "B">>}

Unknown ==
    {pre \o <<"#">> \o post : pre \in Pieces, post \in Pieces}
    \cup {pre \o <<c>> : pre \in Pieces, c \in UnknownChars}
    \cup {<<c>> \o post : post \in Pieces, c \in UnknownChars}
    \cup {<<"ZERO WIDTH SPACE">>, <<"A", "ZERO WIDTH SPACE", "U", "B">>,
          <<"CYRILLIC CAPITAL LETTER A", " ", "U", " ", "B">>, <<"A", "SURROGATE D800">>,
          <<"\n", "A", "NO-BREAK SPACE", "#">>}

\* Groups nested three deep, well-formed and not.
Deep ==
    {<<"(", "(", "(", "A", ")", ")", ")">>, <<"(", "(", "(">>, <<"(", "(", "(", ")">>,
     <<"(", "(", "(", "A">>, <<"(", "(", "(", "A", " ", "B">>, <<"(", "(", "(", "A", "U">>,
     <<"A", "U", "(", "(", "(", "B", ")", ")", "C">>, <<"(", "(", "A", ")", "(", "(", "(">>}

Formulas ==
    {Codes(f) : f \in Blank \cup WellFormed \cup Trailing \cup Unclosed \cup Truncated
                       \cup Stray \cup Unknown \cup Deep}

Init ==
    /\ expression \in Formulas
    /\ masks \in AllMasks
    /\ pc = "idle"
    /\ tokens = <<>>
    /\ stack = <<>>
    /\ ret = None
    /\ error = NoErr
    /\ safe_result = None
    /\ stdout = None
    /\ propagated = NoError
    /\ result = None

Spec == Init /\ [][Next]_vars

----------------------------------------------------------------------------
\* The grammar of the formula language, stated on token sequences:
\*   Or := Diff ('OR' Diff)*      Diff := Xor ('DIFF' Xor)*
\*   Xor := And ('XOR' And)*      And := Not ('AND' Not)*
\*   Not := Atom ['NOT']          Atom := SetRef | '(' Or ')'
Before(s, k) == SubSeq(s, 1, k - 1)

After(s, k) == SubSeq(s, k + 1, Len(s))

RECURSIVE IsOr(_), IsDiff(_), IsXor(_), IsAnd(_), IsNot(_), IsAtom(_)
IsOr(s) ==
    \/ IsDiff(s)
    \/ \E k \in 2..(Len(s) - 1) : s[k] = "OR" /\ IsDiff(After(s, k)) /\ IsOr(Before(s, k))

IsDiff(s) ==
    \/ IsXor(s)
    \/ \E k \in 2..(Len(s) - 1) : s[k] = "DIFF" /\ IsXor(After(s, k)) /\ IsDiff(Before(s, k))

IsXor(s) ==
    \/ IsAnd(s)
    \/ \E k \in 2..(Len(s) - 1) : s[k] = "XOR" /\ IsAnd(After(s, k)) /\ IsXor(Before(s, k))

IsAnd(s) ==
    \/ IsNot(s)
    \/ \E k \in 2..(Len(s) - 1) : s[k] = "AND" /\ IsNot(After(s, k)) /\ IsAnd(Before(s, k))

IsNot(s) ==
    \/ IsAtom(s)
    \/ Len(s) >= 2 /\ s[Len(s)] = "NOT" /\ IsAtom(Before(s, Len(s)))

IsAtom(s) ==
    \/ Len(s) = 1 /\ s[1] \in Names
    \/ Len(s) >= 3 /\ s[1] = "(" /\ s[Len(s)] = ")" /\ IsOr(SubSeq(s, 2, Len(s) - 1))

Derivable(s) == IsOr(s)

\* The characters _tokenize takes: whitespace and the alphabet.
Known == WhiteSpace \cup Alphabet

\* Every character of the formula is whitespace or of the alphabet.
Tokenizes(expr) == \A i \in 1..Len(expr) : expr[i] \in Known

\* The tokens of a formula all of whose characters are known.
TokensOf(expr) == tokenize(Strip(expr)).tokens

IsBlank(expr) == \A i \in 1..Len(expr) : expr[i] \in WhiteSpace

\* evaluate (the spec's name for _safe_evaluate) failed: an error was raised
\* and no vector was returned.
Failed == error.kind # NoError /\ safe_result = None

FailedWith(kind) == error.kind = kind /\ safe_result = None

\* C1: a formula whose tokens are not derivable from Expression, tokens left
\* over after a complete Expression included, ends in a parse error and
\* yields no result vector.
C1_MalformedIsRejected ==
    (/\ pc = "done"
     /\ ~IsBlank(expression)
     /\ Tokenizes(expression)
     /\ ~Derivable(TokensOf(expression)))
    => Failed


\* Number of '(' not yet closed in s.
RECURSIVE Opens(_)
Opens(s) ==
    IF s = <<>> THEN 0
    ELSE Opens(Before(s, Len(s)))
         + (IF s[Len(s)] = "(" THEN 1 ELSE IF s[Len(s)] = ")" THEN -1 ELSE 0)

Closers(n) == [i \in 1..n |-> ")"]

\* s is the beginning of some derivable token sequence: an operand, if one is
\* due, and the closing parentheses of the open groups complete it.
ViablePrefix(s) ==
    /\ Opens(s) >= 0
    /\ \/ Derivable(s \o Closers(Opens(s)))
       \/ Derivable(s \o <<"A">> \o Closers(Opens(s)))

BinTokens == {"OR", "AND", "XOR", "DIFF"}

\* After the tokens s the grammar requires an atom.
OperandRequired(s) == s = <<>> \/ s[Len(s)] \in BinTokens \cup {"("}

\* The evaluation is over and its formula was tokenized: tokens holds the
\* formula's token sequence.
Parsed == pc = "done" /\ ~IsBlank(expression) /\ Tokenizes(expression)

\* The set operations as the formula language defines them, per element.
SetOp(o, a, b) ==
    [i \in Universe |->
        CASE o = "U" -> a[i] \/ b[i]
          [] o = "&" -> a[i] /\ b[i]
          [] o = "^" -> (a[i] /\ ~b[i]) \/ (~a[i] /\ b[i])
          [] o = "-" -> a[i] /\ ~b[i]]

Complement(a) == [i \in Universe |-> ~a[i]]

\* Binding strength of the binary operators, loosest first.
Rank(o) == CASE o = "U" -> 1 [] o = "-" -> 2 [] o = "^" -> 3 [] o = "&" -> 4

Evaluated(expr, value) ==
    (pc = "done" /\ expression = Codes(expr))
    => (error = NoErr /\ safe_result = Some(value) /\ result = Some(value))

\* C2: an unparenthesized formula "A o B p C" mixing operators of two tiers
\* groups the tighter operator first, with And > Xor > Diff > Or: "A U B - C"
\* is A OR (B AND NOT C), "A - B U C" is (A AND NOT B) OR C.
C2_Precedence ==
    pc = "done" =>
        \A o \in BinChars, p \in BinChars :
            Rank(o) # Rank(p) =>
                Evaluated(Spaced(<<"A", o, "B", p, "C">>),
                          IF Rank(o) > Rank(p)
                          THEN SetOp(p, SetOp(o, masks["A"], masks["B"]), masks["C"])
                          ELSE SetOp(o, masks["A"], SetOp(p, masks["B"], masks["C"])))

\* "A U B - C" was evaluated on vectors for which the two groupings differ.
C2_Witness ==
    /\ pc = "done"
    /\ expression = Codes(<<"A", " ", "U", " ", "B", " ", "-", " ", "C">>)
    /\ safe_result = Some(SetOp("U", masks["A"], SetOp("-", masks["B"], masks["C"])))
    /\ safe_result # Some(SetOp("-", SetOp("U", masks["A"], masks["B"]), masks["C"]))

\* C3: a set reference evaluates to its vector, "X o Y" to the elementwise
\* operation o, and a chain "A o B o C" to the left-to-right fold
\* (A o B) o C.
C3_FoldLeft ==
    pc = "done" =>
        /\ \A x \in NameChars :
            /\ Evaluated(<<x>>, masks[x])
            /\ Evaluated(<<" ", x, " ">>, masks[x])
        /\ \A xy \in Pairs, o \in BinChars :
            Evaluated(Spaced(<<xy[1], o, xy[2]>>), SetOp(o, masks[xy[1]], masks[xy[2]]))
        /\ \A o \in BinChars :
            Evaluated(Spaced(<<"A", o, "B", o, "C">>),
                      SetOp(o, SetOp(o, masks["A"], masks["B"]), masks["C"]))

\* "A - B - C" was evaluated on vectors for which left and right association
\* differ.
C3_Witness ==
    /\ pc = "done"
    /\ expression = Codes(<<"A", " ", "-", " ", "B", " ", "-", " ", "C">>)
    /\ safe_result = Some(SetOp("-", SetOp("-", masks["A"], masks["B"]), masks["C"]))
    /\ safe_result # Some(SetOp("-", masks["A"], SetOp("-", masks["B"], masks["C"])))

\* C4: the postfix '.' complements the one atom or group before it: "X." is
\* NOT X, "A o B." is A o (NOT B), "A. o B" is (NOT A) o B and "(A o B)." is
\* NOT (A o B).
C4_PostfixNot ==
    pc = "done" =>
        /\ \A x \in NameChars : Evaluated(<<x, ".">>, Complement(masks[x]))
        /\ \A o \in BinChars :
            /\ Evaluated(<<"A", " ", o, " ", "B", ".">>,
                         SetOp(o, masks["A"], Complement(masks["B"])))
            /\ Evaluated(<<"A", ".", " ", o, " ", "B">>,
                         SetOp(o, Complement(masks["A"]), masks["B"]))
            /\ Evaluated(<<"(", "A", " ", o, " ", "B", ")", ".">>,
                         Complement(SetOp(o, masks["A"], masks["B"])))

\* "A & B." was evaluated on vectors for which complementing B alone differs
\* from complementing the whole chain.
C4_Witness ==
    /\ pc = "done"
    /\ expression = Codes(<<"A", " ", "&", " ", "B", ".">>)
    /\ safe_result = Some(SetOp("&", masks["A"], Complement(masks["B"])))
    /\ safe_result # Some(Complement(SetOp("&", masks["A"], masks["B"])))


\* The group opened at token j holds the complete expression tokens[j+1..k],
\* the parse has come this far without error (the tokens up to k begin a
\* derivable sequence and no call was refused by the recursion limit, so the
\* sub-parse of the group's expression has returned), and what follows can
\* neither extend the expression nor close the group.
GroupNotClosed(j, k) ==
    /\ tokens[j] = "("
    /\ Derivable(SubSeq(tokens, j + 1, k))
    /\ ViablePrefix(SubSeq(tokens, 1, k))
    /\ error.kind # RecursionError
    /\ \/ k = Len(tokens)
       \/ /\ tokens[k + 1] # ")"
          /\ ~ViablePrefix(SubSeq(tokens, 1, k + 1))

\* The calls one group nests: _parse_atom is reached from _parse_expression
\* through every tier.
Calls == {"expression", "or", "diff", "xor", "and", "not", "atom"}

\* The deepest nesting of groups in s.
RECURSIVE Nesting(_)
Nesting(s) ==
    IF s = <<>> THEN 0
    ELSE LET n == Nesting(Before(s, Len(s)))
         IN  IF Opens(s) > n THEN Opens(s) ELSE n

\* Parsing s takes more active calls than the recursion limit allows.
TooDeep(s) == (Nesting(s) + 1) * Cardinality(Calls) > RecursionLimit

\* Parsing s takes every call the recursion limit allows: its innermost
\* _parse_atom runs in the last frame.
AtLimit(s) == (Nesting(s) + 1) * Cardinality(Calls) = RecursionLimit

\* Evaluation failed after parsing s: with err where the recursion limit is
\* not reached, with RecursionError where it is exceeded, with either where
\* it is just met.
FailedAfter(s, err) ==
    /\ safe_result = None
    /\ CASE TooDeep(s) -> error = Err(RecursionError, "")
         [] AtLimit(s) -> error \in {err, Err(RecursionError, "")}
         [] OTHER -> error = err

\* The call of _parse_atom that read '(' has its sub-expression back.
GroupParsed == Running("atom", "paren") /\ ret # None

\* C5: after '(' and the sub-parse of the expression inside it the next
\* unconsumed token must be ')': if it is another token or the tokens have
\* run out, evaluation fails with UnclosedParenthesis and returns no vector;
\* if it is ')', exactly that token is consumed and the group has the value
\* of its expression. The first conjunct states it of the evaluation's
\* outcome, the second of the step _parse_atom takes once the sub-parse has
\* returned, the third carries the error of that step to the outcome.
C5_ClosingParenthesis ==
    /\ [](Parsed =>
            \A j \in 1..Len(tokens), k \in 1..Len(tokens) :
                (j < k /\ GroupNotClosed(j, k)) => FailedWith(UnclosedParenthesis))
    /\ [][GroupParsed =>
            IF ret[1].pos < Len(tokens) /\ tokens[ret[1].pos + 1] = ")"
            THEN /\ ret' = Some([val |-> ret[1].val, pos |-> ret[1].pos + 1,
                                 fn |-> "atom", start |-> Top.start])
                 /\ pc' = "parsing"
                 /\ error' = NoErr
            ELSE /\ pc' = "raised"
                 /\ error' = Err(UnclosedParenthesis, "")
                 /\ safe_result' = None]_vars
    /\ [][pc = "raised" =>
            /\ pc' = "done"
            /\ error' = error
            /\ safe_result' = None]_vars

\* "(A B)" was evaluated: the group's expression A is followed by B.
C5_Witness ==
    /\ pc = "done"
    /\ tokens = <<"(", "A", "B", ")">>
    /\ GroupNotClosed(1, 2)
    /\ FailedWith(UnclosedParenthesis)

\* The tokens end where the grammar still requires a token: they begin a
\* derivable sequence and are not one.
EndedEarly(s) == ViablePrefix(s) /\ ~Derivable(s)

\* C6 as stated: whenever the tokens end before a required token, the operand
\* after a binary operator or the closing parenthesis or operand of an opened
\* group, evaluation fails with UnexpectedEndOfInput and returns no vector.
C6_EndOfInput ==
    (Parsed /\ EndedEarly(tokens)) => FailedWith(UnexpectedEndOfInput)

\* C6 amended: when the tokens end where an operand is required (after a
\* binary operator or after '('), evaluation fails with UnexpectedEndOfInput;
\* when they end where only the closing parenthesis of an opened group is
\* due, it fails with UnclosedParenthesis; when parsing their groups takes
\* more calls than the recursion limit allows, it fails with RecursionError
\* instead, and when it takes exactly as many, with that or with
\* RecursionError; no vector is returned in any case.
C6_EndOfInputAmended ==
    (Parsed /\ EndedEarly(tokens)) =>
        FailedAfter(tokens,
                    IF OperandRequired(tokens)
                    THEN Err(UnexpectedEndOfInput, "")
                    ELSE Err(UnclosedParenthesis, ""))

\* "A U (" was evaluated: the tokens end where the operand of the group is due.
C6_Witness ==
    /\ pc = "done"
    /\ tokens = <<"A", "OR", "(">>
    /\ EndedEarly(tokens)
    /\ OperandRequired(tokens)
    /\ FailedWith(UnexpectedEndOfInput)

\* C7: where the grammar requires an atom (at the start, after a binary
\* operator, after '(') a token that is neither a set reference nor '(' makes
\* evaluation fail with UnexpectedToken, naming that token, and no vector is
\* returned.
C7_UnexpectedToken ==
    Parsed =>
        \A k \in 1..Len(tokens) :
            (/\ tokens[k] \notin Names \cup {"("}
             /\ OperandRequired(Before(tokens, k))
             /\ ViablePrefix(Before(tokens, k)))
            => (error = Err(UnexpectedToken, tokens[k]) /\ safe_result = None)

\* C7 holds of every formula parsed within the recursion limit; an atom
\* nested beyond it fails with RecursionError before its token is read.
C7_WithinRecursionLimit ==
    Parsed =>
        \A k \in 1..Len(tokens) :
            (/\ tokens[k] \notin Names \cup {"("}
             /\ OperandRequired(Before(tokens, k))
             /\ ViablePrefix(Before(tokens, k)))
            => FailedAfter(Before(tokens, k), Err(UnexpectedToken, tokens[k]))

\* "((()" was evaluated: ')' stands where the operand of the innermost group
\* is due, and the error is not that of the token.
C7_TooDeep ==
    /\ pc = "done"
    /\ tokens = <<"(", "(", "(", ")">>
    /\ ViablePrefix(<<"(", "(", "(">>)
    /\ FailedWith(RecursionError)

\* The first character of expr that is neither whitespace nor of the alphabet.
RECURSIVE FirstUnknown(_)
FirstUnknown(expr) ==
    IF Head(expr) \in Known THEN FirstUnknown(Tail(expr)) ELSE Head(expr)

\* C8: a formula with a non-whitespace character outside the alphabet fails
\* with UnknownCharacter and returns no vector, whatever else it holds: the
\* whole string is tokenized before any parsing, so no parse call is ever
\* made and no parser error or prefix value can result.
C8_UnknownCharacter ==
    ~Tokenizes(expression) =>
        /\ pc \in {"idle", "safe_evaluate", "raised", "done"}
        /\ tokens = <<>> /\ stack = <<>> /\ ret = None
        /\ pc \in {"raised", "done"} =>
            (error = CharErr(UnknownCharacter, FirstUnknown(expression)) /\ safe_result = None)

\* "A U B #" was evaluated: the well-formed prefix A U B has no value.
C8_Witness ==
    /\ pc = "done"
    /\ expression = Codes(<<"A", " ", "U", " ", "B", " ", "#">>)
    /\ FailedWith(UnknownCharacter)

\* C9: an empty or whitespace-only formula yields the all-false vector of the
\* universe's length and no error, nothing is printed, and it is neither
\* tokenized nor parsed.
C9_BlankFormula ==
    IsBlank(expression) =>
        /\ pc \in {"idle", "done"}
        /\ tokens = <<>> /\ stack = <<>> /\ ret = None
        /\ error = NoErr
        /\ safe_result = None
        /\ stdout = None
        /\ propagated = NoError
        /\ pc = "done" =>
            /\ result # None
            /\ DOMAIN result[1] = 1..UniverseSize
            /\ \A i \in 1..UniverseSize : result[1][i] = FALSE

\* A whitespace-only formula was evaluated.
C9_Witness ==
    /\ pc = "done"
    /\ expression = Codes(<<" ", "\t", " ">>)
    /\ result = Some(Zeros)

\* The parse cursor: the position just returned, else that of the running call.
Cursor == IF ret # None THEN ret[1].pos ELSE Top.pos

Parsing == pc = "parsing" /\ (stack # <<>> \/ ret # None)

\* An upper bound on the steps an evaluation still takes: the unconsumed
\* tokens weigh most, then the calls still to be made down to _parse_atom (no
\* call returned yet) or the calls still to return.
CallsToAtom(fn) ==
    CASE fn = "expression" -> 6 [] fn = "or" -> 5 [] fn = "diff" -> 4
      [] fn = "xor" -> 3 [] fn = "and" -> 2 [] fn = "not" -> 1 [] fn = "atom" -> 0

Weight(len) == 7 * (len + 1) + 2

StepsLeft ==
    CASE pc = "done" -> 0
      [] pc = "raised" -> 1
      [] pc = "parsing" ->
            2 + (Len(tokens) - Cursor) * Weight(Len(tokens))
              + (IF ret = None THEN CallsToAtom(Top.fn) ELSE Len(stack) + 1)
      [] pc = "safe_evaluate" -> 3 + (Len(expression) + 1) * Weight(Len(expression))
      [] pc = "idle" -> 4 + (Len(expression) + 1) * Weight(Len(expression))

\* C10: during an evaluation the cursor never decreases and never exceeds the
\* number of tokens, a call that returns a value returns a position greater
\* than the one it was given, and every evaluation terminates with a vector
\* or an error: each step lowers a natural-number bound on the steps left,
\* only a finished evaluation has no next step, and a finished one has
\* returned a vector or raised an exception, never both.
C10_CursorAdvances ==
    /\ [](Parsing =>
            /\ Cursor <= Len(tokens)
            /\ \A d \in 1..Len(stack) : stack[d].start <= stack[d].pos /\ stack[d].pos <= Cursor
            /\ ret # None => ret[1].pos > ret[1].start)
    /\ [][(Parsing /\ Parsing') => Cursor' >= Cursor]_vars
    /\ [](StepsLeft >= 0)
    /\ [][StepsLeft' < StepsLeft]_vars
    /\ [](pc # "done" => ENABLED Next)
    /\ [](pc = "done" =>
            /\ (result # None) # (propagated # NoError)
            /\ safe_result # None \/ error # NoErr \/ IsBlank(expression))

\* A call of _parse_or inside a group returned after consuming three tokens.
C10_Witness ==
    /\ Parsing
    /\ ret # None
    /\ ret[1].fn = "or"
    /\ ret[1].start = 1
    /\ ret[1].pos = 4

====
